---------------------------- MODULE Spec2Model ----------------------------
(***************************************************************************)
(* A model of the Flappy Bird game of this repository: the Game            *)
(* orchestrator (src/js/game.js), the Pipe obstacle (src/js/pipe.js), the  *)
(* Menu overlay (src/js/menu.js) and the Bird (bird.js, kept in            *)
(* src/unnamed/part_002 and, in an earlier sizing, src/js/menu.js:87-179). *)
(*                                                                         *)
(* Numbers.  The program computes with JavaScript Numbers.  Every length   *)
(* and velocity of the game is a multiple of 0.05 pixel (gravity 0.2,      *)
(* jumpStrength -7, pipe speed 1.45, all sizes whole pixels), so the model *)
(* counts in units of 1/20 pixel: Px(n) is n pixels.  The model is exact   *)
(* arithmetic on these multiples; the binary rounding of the program's     *)
(* doubles (below 1e-12 pixel) is not modelled.                            *)
(***************************************************************************)
EXTENDS Integers, Sequences, FiniteSets

(***************************************************************************)
(* Bounds of the model.                                                    *)
(***************************************************************************)
\* Running ticks explored in one run (frameCount never exceeds it).
MaxFrames == 630
\* Math.random() is drawn from {0, 1/RandSteps, ..., (RandSteps-1)/RandSteps}
\* and the largest value below 1.
RandSteps == 1
\* A flap trigger is delivered to a running game only on frames that are a
\* multiple of FlapEvery (Idle and GameOver take triggers at any time).
FlapEvery == 30

(***************************************************************************)
(* Units and the program's constants.                                      *)
(***************************************************************************)
Px(n) == 20 * n

\* game.js:20-21, canvas.width x canvas.height; the canvas is 400x700.
canvasWidth == Px(400)
canvasHeight == Px(700)
\* game.js:28
pipeGap == 300

\* bird.js (part_002:21-27)
birdWidth == Px(42)
birdHeight == Px(28)
birdX == Px(70)
gravity == Px(2) \div 10
jumpStrength == -Px(7)

\* pipe.js:15,23
pipeWidth == Px(72)
pipeSpeed == Px(145) \div 100
pipeVerticalGap == Px(250)

VARIABLES
    birdY,            \* bird.y
    velocity,         \* bird.velocity
    pipes,            \* game.pipes, a sequence of Pipe records
    score,            \* game.score
    frameCount,       \* game.frameCount
    isRunning,        \* game.isRunning
    isGameOver,       \* game.isGameOver
    menuDisplay,      \* menu.menuElement.style.display
    gameOverDisplay,  \* menu.gameOverElement.style.display
    scoreDisplay,     \* game.scoreDisplay.style.display
    scoreText,        \* the number shown in game.scoreDisplay.textContent
    finalScore,       \* the number shown in #final-score, -1 before any game over
    removed,          \* history: the pipes pruned in the current run, in order
    gameOverCalls,    \* history: the calls of Game.gameOver in the current run
    pendingFrames,    \* gameLoop callbacks waiting in requestAnimationFrame
    player,           \* how the player plays: "any", "idle" or "frantic"
    lastEvent,        \* history: the handler that ran last
    hp,               \* a Pipe object driven directly through its methods
    hArg,             \* the birdX of the last isPassed call on hp
    hRet,             \* what the last isPassed call on hp returned
    hTrue,            \* history: how many isPassed calls on hp returned true
    hCalls,           \* history: how many isPassed calls were made on hp
    hSteps,           \* history: how many update calls were made on hp
    by,               \* y of a Bird object driven directly through its methods
    bv,               \* velocity of that Bird object
    bFall,            \* history: updates since its last reset with no flap, else -1
    bSteps,           \* history: how many update calls were made on it
    rA,               \* first argument of a rectsIntersect call
    rB,               \* second argument of that call
    rAB,              \* the value of rectsIntersect(rA, rB)
    rBA               \* the value of rectsIntersect(rB, rA)

game == <<birdY, velocity, pipes, score, frameCount, isRunning, isGameOver,
          menuDisplay, gameOverDisplay, scoreDisplay, scoreText, finalScore,
          removed, gameOverCalls>>

\* What surrounds the game: the browser's animation-frame queue and the player.
environment == <<pendingFrames, player>>

pipeHarness == <<hp, hArg, hRet, hTrue, hCalls, hSteps>>

birdHarness == <<by, bv, bFall, bSteps>>

rectHarness == <<rA, rB, rAB, rBA>>

harness == <<pipeHarness, birdHarness, rectHarness>>

vars == <<game, lastEvent, harness, environment>>

(***************************************************************************)
(* Pipe (src/js/pipe.js)                                                   *)
(***************************************************************************)
\* The values Math.random() takes in the model, as numerators over RandSteps;
\* RandSteps itself stands for the largest double below 1.
RandomDraws == 0..RandSteps

\* Math.floor(Math.random() * (canvasHeight / 3 - 50)) + 60, in pixels, for
\* the draw k / RandSteps.  canvasHeight / 3 - 50 = (canvasHeight - 150) / 3.
TopHeightPx(k) ==
    LET h == canvasHeight \div Px(1)
    IN IF k < RandSteps
       THEN ((k * (h - 150)) \div (3 * RandSteps)) + 60
       ELSE (((h - 150) + 2) \div 3 - 1) + 60

\* A variant of the Pipe constructor that forgets the gap in bottomHeight.
NewPipeGapForgotten(x, k) ==
    LET top == Px(TopHeightPx(k))
    IN [x |-> x,
        width |-> pipeWidth,
        speed |-> pipeSpeed,
        gap |-> pipeVerticalGap,
        passed |-> FALSE,
        topHeight |-> top,
        bottomY |-> top + pipeVerticalGap,
        bottomHeight |-> canvasHeight - top]

\* new Pipe(ctx, canvasWidth, canvasHeight, x) with the random draw k.
NewPipe(x, k) ==
    LET top == Px(TopHeightPx(k))
    IN [x |-> x,
        width |-> pipeWidth,
        speed |-> pipeSpeed,
        gap |-> pipeVerticalGap,
        passed |-> FALSE,
        topHeight |-> top,
        bottomY |-> top + pipeVerticalGap,
        bottomHeight |-> canvasHeight - (top + pipeVerticalGap)]

\* Every topHeight the constructor can draw, in pixels: Math.random() is in
\* [0, 1), so the floor takes every integer from 0 up to the one the
\* largest draw gives.
TopHeightsPx == TopHeightPx(0)..TopHeightPx(RandSteps)

\* A variant of Pipe.update with a bounds check: the pipe stops at the left
\* edge.
PipeUpdateStopsAtEdge(p) ==
    [p EXCEPT !.x = IF p.x - p.speed < 0 THEN 0 ELSE p.x - p.speed]

\* Pipe.update
PipeUpdate(p) == [p EXCEPT !.x = p.x - p.speed]

\* A variant of isOffScreen that forgets the pipe's width.
isOffScreenNoWidth(p) == p.x < 0

\* Pipe.isOffScreen
isOffScreen(p) == p.x + p.width < 0

\* A variant of isPassed whose comparison is the wrong way round.
isPassedResultBeforeBird(p, bx) == ~p.passed /\ bx < p.x + p.width

\* Pipe.isPassed: the value returned, and the pipe after the call.
isPassedResult(p, bx) == ~p.passed /\ bx > p.x + p.width

\* A variant of isPassed that never latches the flag.
isPassedPipeNoLatch(p, bx) == p

isPassedPipe(p, bx) ==
    IF ~p.passed /\ bx > p.x + p.width THEN [p EXCEPT !.passed = TRUE] ELSE p

\* Pipe.getBounds: the top and the bottom segment.
PipeBounds(p) ==
    << [x |-> p.x, y |-> 0, width |-> p.width, height |-> p.topHeight],
       [x |-> p.x, y |-> p.bottomY, width |-> p.width, height |-> p.bottomHeight] >>

(***************************************************************************)
(* Bird (bird.js)                                                          *)
(***************************************************************************)
\* A variant of Bird.update without the ceiling clamp.
BirdUpdateNoCeiling(y, v) ==
    LET v1 == v + gravity
        y1 == y + v1
    IN IF y1 + birdHeight > canvasHeight
       THEN <<canvasHeight - birdHeight, 0>>
       ELSE <<y1, v1>>

\* A variant of Bird.update that moves the bird before applying gravity.
BirdUpdatePositionFirst(y, v) ==
    LET y1 == y + v
        v1 == v + gravity
        fl == IF y1 + birdHeight > canvasHeight
              THEN <<canvasHeight - birdHeight, 0>>
              ELSE <<y1, v1>>
    IN IF fl[1] < 0 THEN <<0, 0>> ELSE fl

\* A variant of Bird.update whose clamps leave the velocity as it is.
BirdUpdateClampKeepsVelocity(y, v) ==
    LET v1 == v + gravity
        y1 == y + v1
        fl == IF y1 + birdHeight > canvasHeight
              THEN <<canvasHeight - birdHeight, v1>>
              ELSE <<y1, v1>>
    IN IF fl[1] < 0 THEN <<0, v1>> ELSE fl

\* Bird.update on (y, velocity): gravity, integration, floor clamp, then
\* ceiling clamp.  The result is the pair <<y, velocity>>.
BirdUpdate(y, v) ==
    LET v1 == v + gravity
        y1 == y + v1
        fl == IF y1 + birdHeight > canvasHeight
              THEN <<canvasHeight - birdHeight, 0>>
              ELSE <<y1, v1>>
    IN IF fl[1] < 0 THEN <<0, 0>> ELSE fl

\* A variant of Bird.flap that adds the impulse to the velocity.
FlapVelocityAdditive(v) == v + jumpStrength

\* Bird.flap: the velocity it leaves, whatever the velocity v before.
FlapVelocity(v) == jumpStrength

\* Bird.reset: the pair <<y, velocity>> it leaves.
BirdReset == <<canvasHeight \div 2, 0>>

\* Bird.getBounds
BirdBounds(y) == [x |-> birdX, y |-> y, width |-> birdWidth, height |-> birdHeight]

(***************************************************************************)
(* Game (src/js/game.js)                                                   *)
(***************************************************************************)
\* A variant of rectsIntersect that counts touching edges as intersecting.
rectsIntersectInclusive(rect1, rect2) ==
    /\ rect1.x <= rect2.x + rect2.width
    /\ rect1.x + rect1.width >= rect2.x
    /\ rect1.y <= rect2.y + rect2.height
    /\ rect1.y + rect1.height >= rect2.y

\* Game.rectsIntersect
rectsIntersect(rect1, rect2) ==
    /\ rect1.x < rect2.x + rect2.width
    /\ rect1.x + rect1.width > rect2.x
    /\ rect1.y < rect2.y + rect2.height
    /\ rect1.y + rect1.height > rect2.y

\* A variant of checkCollisions with strict floor and ceiling tests.
checkCollisionsStrictBounds(y, ps) ==
    \/ y + birdHeight > canvasHeight
    \/ y < 0
    \/ \E i \in 1..Len(ps) : \E j \in 1..2 :
          (LET a == BirdBounds(y)
               b == PipeBounds(ps[i])[j]
           IN a.x < b.x + b.width /\ a.x + a.width > b.x
              /\ a.y < b.y + b.height /\ a.y + a.height > b.y)

\* A variant of checkCollisions that tests only the top segment of a pipe.
checkCollisionsTopOnly(y, ps) ==
    \/ y + birdHeight >= canvasHeight
    \/ y <= 0
    \/ \E i \in 1..Len(ps) : rectsIntersect(BirdBounds(y), PipeBounds(ps[i])[1])

\* Game.checkCollisions for the bird at y and the pipe sequence ps.
checkCollisions(y, ps) ==
    \/ y + birdHeight >= canvasHeight
    \/ y <= 0
    \/ \E i \in 1..Len(ps) : \E j \in 1..2 :
          rectsIntersect(BirdBounds(y), PipeBounds(ps[i])[j])

NotOffScreen(p) == ~isOffScreen(p)
OffScreen(p) == isOffScreen(p)

\* this.pipes.forEach(pipe => pipe.update())
AdvancePipes(ps) == [i \in 1..Len(ps) |-> PipeUpdate(ps[i])]

\* this.pipes = this.pipes.filter(pipe => !pipe.isOffScreen())
PrunePipes(ps) == SelectSeq(ps, NotOffScreen)

\* The scoring loop of Game.update: the pipes after the isPassed calls and
\* the number of calls that returned true.
ScorePipes(ps) == [i \in 1..Len(ps) |-> isPassedPipe(ps[i], birdX)]

ScoreGain(ps) == Cardinality({i \in 1..Len(ps) : isPassedResult(ps[i], birdX)})

\* A variant of Game.update without its early return.
UpdateRunsAlways == TRUE

\* if (!this.isRunning || this.isGameOver) return;
UpdateRuns == isRunning /\ ~isGameOver

\* A variant of the spawn test that reads frameCount before the increment.
ShouldSpawnBeforeIncrement(fc) == (fc - 1) % pipeGap = 0

\* if (this.frameCount % this.pipeGap === 0), on the incremented frameCount
ShouldSpawn(fc) == fc % pipeGap = 0

\* A variant of the keydown handler that starts a game in any state.
CanStartAlways == TRUE

\* The guard of the start branch of the keydown handler:
\* !this.isRunning || this.isGameOver
CanStart == ~isRunning \/ isGameOver

\* A variant of the flap handlers without their guard.
CanFlapAlways == TRUE

\* The guard of both flap handlers: this.isRunning && !this.isGameOver
CanFlap == isRunning /\ ~isGameOver

\* A variant of Game.gameOver that returns to the not-started state.
gameOverFlagsBackToIdle == <<FALSE, FALSE>>

\* A variant of Game.gameOver that leaves isRunning set.
gameOverFlagsStillRunning == <<TRUE, TRUE>>

\* Game.gameOver: the values it gives <<isRunning, isGameOver>>.
gameOverFlags == <<FALSE, TRUE>>

GameInit ==
    /\ birdY = canvasHeight \div 2
    /\ velocity = 0
    /\ pipes = <<>>
    /\ score = 0
    /\ frameCount = 0
    /\ isRunning = FALSE
    /\ isGameOver = FALSE
    /\ menuDisplay = "flex"
    /\ gameOverDisplay = "none"
    /\ scoreDisplay = "initial"
    /\ scoreText = -1
    /\ finalScore = -1
    /\ removed = <<>>
    /\ gameOverCalls = 0
    /\ pendingFrames = 1

\* The objects driven directly, at rest while another specification runs.
PipeHarnessIdle ==
    /\ hp = NewPipe(0, 0)
    /\ hArg = 0
    /\ hRet = FALSE
    /\ hTrue = 0
    /\ hCalls = 0
    /\ hSteps = 0

BirdHarnessIdle ==
    /\ by = BirdReset[1]
    /\ bv = BirdReset[2]
    /\ bFall = 0
    /\ bSteps = 0

RectHarnessIdle ==
    /\ rA = BirdBounds(0)
    /\ rB = BirdBounds(0)
    /\ rAB = FALSE
    /\ rBA = FALSE

Init ==
    /\ GameInit
    /\ lastEvent = "init"
    /\ player = "any"
    /\ PipeHarnessIdle
    /\ BirdHarnessIdle
    /\ RectHarnessIdle

\* A variant of Game.spawnPipe that puts the new pipe in front.
spawnPipeInFront(ps, k) == <<NewPipe(canvasWidth, k)>> \o ps

\* A variant of Game.spawnPipe whose pipes get faster with the score.
spawnPipeByScore(ps, k) ==
    Append(ps, [NewPipe(canvasWidth, k) EXCEPT !.speed = pipeSpeed + score])

\* Game.spawnPipe on the pipe sequence ps, with the random draw k.
spawnPipe(ps, k) == Append(ps, NewPipe(canvasWidth, k))

\* A variant of Game.startGame that starts a frame loop of its own.
startGameSchedulesLoop == <<"gameLoop">>

\* The callbacks Game.startGame hands to requestAnimationFrame: none, it
\* calls neither gameLoop nor requestAnimationFrame.
startGameSchedules == <<>>

\* A variant of Game.startGame that keeps the pipes of the previous run.
startGameKeepPipes(k) ==
    /\ menuDisplay' = "none"
    /\ gameOverDisplay' = "none"
    /\ birdY' = BirdReset[1]
    /\ velocity' = BirdReset[2]
    /\ pipes' = spawnPipe(pipes, k)
    /\ score' = 0
    /\ scoreText' = 0
    /\ isRunning' = TRUE
    /\ isGameOver' = FALSE
    /\ frameCount' = 0
    /\ scoreDisplay' = "block"
    /\ removed' = <<>>
    /\ gameOverCalls' = 0
    /\ pendingFrames' = pendingFrames + Len(startGameSchedules)
    /\ UNCHANGED finalScore

\* Game.startGame with the random draw k of the first pipe.
startGame(k) ==
    /\ menuDisplay' = "none"
    /\ gameOverDisplay' = "none"
    /\ birdY' = BirdReset[1]
    /\ velocity' = BirdReset[2]
    /\ pipes' = spawnPipe(<<>>, k)
    /\ score' = 0
    /\ scoreText' = 0
    /\ isRunning' = TRUE
    /\ isGameOver' = FALSE
    /\ frameCount' = 0
    /\ scoreDisplay' = "block"
    /\ removed' = <<>>
    /\ gameOverCalls' = 0
    /\ pendingFrames' = pendingFrames + Len(startGameSchedules)
    /\ UNCHANGED finalScore

\* Bird.flap
flap ==
    /\ velocity' = FlapVelocity(velocity)
    /\ UNCHANGED <<birdY, pipes, score, frameCount, isRunning, isGameOver,
                   menuDisplay, gameOverDisplay, scoreDisplay, scoreText,
                   finalScore, removed, gameOverCalls, pendingFrames>>

\* A handler that returns without touching the game.
Nothing == UNCHANGED game

\* An input handler that returns without touching the game or the frame
\* queue.
Ignored == Nothing /\ UNCHANGED pendingFrames

\* The environment delivers a flap trigger to a running game on this frame.
FlapWindow == frameCount % FlapEvery = 0

\* A variant of Game.update that spawns before it advances the pipes.
updateSpawnsBeforeAdvance(k) ==
    IF ~UpdateRuns THEN Nothing
    ELSE
      LET b == BirdUpdate(birdY, velocity)
          fc == frameCount + 1
          spawned == IF ShouldSpawn(fc) THEN spawnPipe(pipes, k) ELSE pipes
          moved == AdvancePipes(spawned)
          kept == PrunePipes(moved)
          sc == score + ScoreGain(kept)
          ps == ScorePipes(kept)
          hit == checkCollisions(b[1], ps)
      IN /\ birdY' = b[1]
         /\ velocity' = b[2]
         /\ pipes' = ps
         /\ removed' = removed \o SelectSeq(moved, OffScreen)
         /\ frameCount' = fc
         /\ score' = sc
         /\ scoreText' = IF sc # score THEN sc ELSE scoreText
         /\ isRunning' = IF hit THEN gameOverFlags[1] ELSE isRunning
         /\ isGameOver' = IF hit THEN gameOverFlags[2] ELSE isGameOver
         /\ scoreDisplay' = IF hit THEN "none" ELSE scoreDisplay
         /\ finalScore' = IF hit THEN sc ELSE finalScore
         /\ gameOverDisplay' = IF hit THEN "flex" ELSE gameOverDisplay
         /\ menuDisplay' = IF hit THEN "none" ELSE menuDisplay
         /\ gameOverCalls' = IF hit THEN gameOverCalls + 1 ELSE gameOverCalls

\* Game.update inside Game.gameLoop, with the random draw k of a pipe the
\* tick may spawn.
update(k) ==
    IF ~UpdateRuns THEN Nothing
    ELSE
      LET b == BirdUpdate(birdY, velocity)
          moved == AdvancePipes(pipes)
          kept == PrunePipes(moved)
          fc == frameCount + 1
          spawned == IF ShouldSpawn(fc) THEN spawnPipe(kept, k) ELSE kept
          sc == score + ScoreGain(spawned)
          ps == ScorePipes(spawned)
          hit == checkCollisions(b[1], ps)
      IN /\ birdY' = b[1]
         /\ velocity' = b[2]
         /\ pipes' = ps
         /\ removed' = removed \o SelectSeq(moved, OffScreen)
         /\ frameCount' = fc
         /\ score' = sc
         /\ scoreText' = IF sc # score THEN sc ELSE scoreText
         /\ isRunning' = IF hit THEN gameOverFlags[1] ELSE isRunning
         /\ isGameOver' = IF hit THEN gameOverFlags[2] ELSE isGameOver
         /\ scoreDisplay' = IF hit THEN "none" ELSE scoreDisplay
         /\ finalScore' = IF hit THEN sc ELSE finalScore
         /\ gameOverDisplay' = IF hit THEN "flex" ELSE gameOverDisplay
         /\ menuDisplay' = IF hit THEN "none" ELSE menuDisplay
         /\ gameOverCalls' = IF hit THEN gameOverCalls + 1 ELSE gameOverCalls

\* One animation frame: the browser takes a pending Game.gameLoop callback
\* and runs it; the callback runs update and asks for one more frame.
\* lastEvent records whether the frame arrived while the game was running.
Tick ==
    /\ pendingFrames >= 1
    /\ (isRunning /\ ~isGameOver) => frameCount < MaxFrames
    /\ \E k \in RandomDraws :
          /\ (isRunning /\ ~isGameOver /\ (frameCount + 1) % pipeGap = 0) \/ k = 0
          /\ update(k)
    /\ pendingFrames' = (pendingFrames - 1) + 1
    /\ lastEvent' = IF isRunning /\ ~isGameOver THEN "tick" ELSE "idleTick"
    /\ UNCHANGED <<harness, player>>

\* A variant of the keydown handler whose start branch does not return, so
\* that a Space that starts a game goes on to the flap test.
KeySpaceNoReturn ==
    /\ (isRunning /\ ~isGameOver) => FlapWindow
    /\ IF CanStart
       THEN \E k \in RandomDraws :
              /\ menuDisplay' = "none"
              /\ gameOverDisplay' = "none"
              /\ birdY' = BirdReset[1]
              /\ velocity' = FlapVelocity(BirdReset[2])
              /\ pipes' = spawnPipe(<<>>, k)
              /\ score' = 0
              /\ scoreText' = 0
              /\ isRunning' = TRUE
              /\ isGameOver' = FALSE
              /\ frameCount' = 0
              /\ scoreDisplay' = "block"
              /\ removed' = <<>>
              /\ gameOverCalls' = 0
              /\ pendingFrames' = pendingFrames + Len(startGameSchedules)
              /\ UNCHANGED finalScore
       ELSE IF CanFlap THEN flap ELSE Ignored
    /\ lastEvent' = "space"
    /\ UNCHANGED <<harness, player>>

\* keydown with e.code = "Space"
KeySpace ==
    /\ (isRunning /\ ~isGameOver) => FlapWindow
    /\ IF CanStart
       THEN \E k \in RandomDraws : startGame(k)
       ELSE IF CanFlap THEN flap ELSE Ignored
    /\ lastEvent' = "space"
    /\ UNCHANGED <<harness, player>>

\* keydown with e.code = "Enter"
KeyEnter ==
    /\ IF CanStart
       THEN \E k \in RandomDraws : startGame(k)
       ELSE Ignored
    /\ lastEvent' = "enter"
    /\ UNCHANGED <<harness, player>>

\* The click listener of the canvas.
canvasClick ==
    /\ IF CanFlap THEN flap ELSE Ignored
    /\ lastEvent' = "click"
    /\ UNCHANGED <<harness, player>>

\* click on the canvas
CanvasClick ==
    /\ (isRunning /\ ~isGameOver) => FlapWindow
    /\ canvasClick

\* The page (index.html and its style sheet) puts the start button inside
\* the menu overlay and the restart button inside the game-over overlay: a
\* button takes clicks while its overlay is displayed.
StartButtonShown == menuDisplay = "flex"

RestartButtonShown == gameOverDisplay = "flex"

\* click on the start button (Menu.startGame)
StartButton ==
    /\ StartButtonShown
    /\ \E k \in RandomDraws : startGame(k)
    /\ lastEvent' = "startButton"
    /\ UNCHANGED <<harness, player>>

\* click on the restart button (Menu.restartGame), inside the game-over overlay.
RestartButton ==
    /\ RestartButtonShown
    /\ \E k \in RandomDraws : startGame(k)
    /\ lastEvent' = "restartButton"
    /\ UNCHANGED <<harness, player>>

Next ==
    \/ Tick
    \/ KeySpace
    \/ KeyEnter
    \/ CanvasClick
    \/ StartButton
    \/ RestartButton

Spec == Init /\ [][Next]_vars

(***************************************************************************)
(* The game under a player who, while a run lasts, either never flaps      *)
(* ("idle") or flaps before every frame ("frantic").  The browser keeps    *)
(* delivering frames: gameLoop asks for the next one on every call.        *)
(***************************************************************************)
Players == {"idle", "frantic"}

LiveInit ==
    /\ GameInit
    /\ lastEvent = "init"
    /\ player \in Players
    /\ PipeHarnessIdle
    /\ BirdHarnessIdle
    /\ RectHarnessIdle

\* A frame; the frantic player has flapped before it.
LiveTick ==
    /\ (isRunning /\ ~isGameOver /\ player = "frantic") => lastEvent = "click"
    /\ Tick

\* The frantic player clicks the canvas once before every frame of a run.
LiveFlap ==
    /\ player = "frantic"
    /\ isRunning /\ ~isGameOver
    /\ lastEvent # "click"
    /\ canvasClick

\* The player starts or restarts a game that is not running.
LiveStart ==
    /\ ~(isRunning /\ ~isGameOver)
    /\ (KeyEnter \/ StartButton \/ RestartButton)

LiveNext ==
    \/ LiveTick
    \/ LiveFlap
    \/ LiveStart

LiveSpec ==
    /\ LiveInit
    /\ [][LiveNext]_vars
    /\ WF_vars(LiveTick)
    /\ WF_vars(LiveFlap)

(***************************************************************************)
(* A single Pipe driven through isPassed and update in any order.          *)
(***************************************************************************)
\* isPassed calls made on the pipe.
MaxCalls == 3
\* update calls made on the pipe.
MaxPipeSteps == 3

\* Where the pipe starts, and the birdX values passed to isPassed (pixels).
PipeStarts == {0, 30, 80}
BirdXs == {70, 100, 150}

PipeInit ==
    /\ GameInit
    /\ lastEvent = "init"
    /\ player = "any"
    /\ BirdHarnessIdle
    /\ RectHarnessIdle
    /\ \E x0 \in PipeStarts : hp = NewPipe(Px(x0), 0)
    /\ hArg = 0
    /\ hRet = FALSE
    /\ hTrue = 0
    /\ hCalls = 0
    /\ hSteps = 0

\* pipe.isPassed(bx)
CallIsPassed ==
    /\ hCalls < MaxCalls
    /\ \E bx \in BirdXs :
          /\ hArg' = Px(bx)
          /\ hRet' = isPassedResult(hp, Px(bx))
          /\ hp' = isPassedPipe(hp, Px(bx))
          /\ hTrue' = IF isPassedResult(hp, Px(bx)) THEN hTrue + 1 ELSE hTrue
    /\ hCalls' = hCalls + 1
    /\ lastEvent' = "isPassed"
    /\ UNCHANGED <<game, environment, hSteps, birdHarness, rectHarness>>

\* pipe.update()
CallUpdate ==
    /\ hSteps < MaxPipeSteps
    /\ hp' = PipeUpdate(hp)
    /\ hSteps' = hSteps + 1
    /\ lastEvent' = "pipeUpdate"
    /\ UNCHANGED <<game, environment, hArg, hRet, hTrue, hCalls, birdHarness, rectHarness>>

PipeNext == CallIsPassed \/ CallUpdate

PipeSpec == PipeInit /\ [][PipeNext]_vars

(***************************************************************************)
(* A single Bird driven through update, flap and reset in any order, from  *)
(* the state its constructor leaves and from other positions and           *)
(* velocities.                                                             *)
(***************************************************************************)
\* update calls made on the bird.
MaxBirdSteps == 12

\* Positions and velocities the bird starts from (pixels, pixels per tick).
BirdStartYs == {0, 1, 350, 671, 672}
BirdStartVs == {-7, 0, 7}

BirdInit ==
    /\ GameInit
    /\ lastEvent = "init"
    /\ player = "any"
    /\ PipeHarnessIdle
    /\ RectHarnessIdle
    /\ \E y0 \in BirdStartYs : by = Px(y0)
    /\ \E v0 \in BirdStartVs : bv = Px(v0)
    /\ bFall = IF <<by, bv>> = BirdReset THEN 0 ELSE -1
    /\ bSteps = 0

\* bird.update()
BirdCallUpdate ==
    /\ bSteps < MaxBirdSteps
    /\ by' = BirdUpdate(by, bv)[1]
    /\ bv' = BirdUpdate(by, bv)[2]
    /\ bFall' = IF bFall >= 0 THEN bFall + 1 ELSE -1
    /\ bSteps' = bSteps + 1
    /\ lastEvent' = "birdUpdate"
    /\ UNCHANGED <<game, environment, pipeHarness, rectHarness>>

\* bird.flap()
BirdCallFlap ==
    /\ bv' = FlapVelocity(bv)
    /\ bFall' = -1
    /\ lastEvent' = "birdFlap"
    /\ UNCHANGED <<game, environment, by, bSteps, pipeHarness, rectHarness>>

\* bird.reset()
BirdCallReset ==
    /\ by' = BirdReset[1]
    /\ bv' = BirdReset[2]
    /\ bFall' = 0
    /\ lastEvent' = "birdReset"
    /\ UNCHANGED <<game, environment, bSteps, pipeHarness, rectHarness>>

BirdNext == BirdCallUpdate \/ BirdCallFlap \/ BirdCallReset

BirdSpec == BirdInit /\ [][BirdNext]_vars

(***************************************************************************)
(* Game.rectsIntersect called on two rectangles of a small integer grid,   *)
(* in both argument orders.                                                *)
(***************************************************************************)
\* Coordinates and sizes of the rectangles range over 0..GridMax.
GridMax == 2

Rects == [x : 0..GridMax, y : 0..GridMax, width : 0..GridMax, height : 0..GridMax]

RectInit ==
    /\ GameInit
    /\ lastEvent = "init"
    /\ player = "any"
    /\ PipeHarnessIdle
    /\ BirdHarnessIdle
    /\ rA \in Rects
    /\ rB \in Rects
    /\ rAB = FALSE
    /\ rBA = FALSE

\* this.rectsIntersect(rA, rB) and this.rectsIntersect(rB, rA)
CallRectsIntersect ==
    /\ lastEvent = "init"
    /\ rAB' = rectsIntersect(rA, rB)
    /\ rBA' = rectsIntersect(rB, rA)
    /\ lastEvent' = "rectsIntersect"
    /\ UNCHANGED <<game, environment, rA, rB, pipeHarness, birdHarness>>

RectNext == CallRectsIntersect

RectSpec == RectInit /\ [][RectNext]_vars

(***************************************************************************)
(* Properties                                                              *)
(***************************************************************************)
\* The three run states, from the two flags.
Idle == ~isRunning /\ ~isGameOver
Running == isRunning /\ ~isGameOver
GameOver == ~isRunning /\ isGameOver

\* A step in which startGame ran: the game was not running and now is.
StartStep == ~(isRunning /\ ~isGameOver) /\ isRunning' /\ ~isGameOver'

\* A step that is a tick of a running game.
RunningTick == isRunning /\ ~isGameOver /\ lastEvent' = "tick"

\* C1: the bird is always inside the world, 0 <= bird.y <= canvasHeight -
\* bird.height, after every tick and every flap, in every run state.
C1_BoundaryInvariant ==
    /\ birdY >= 0
    /\ birdY <= canvasHeight - birdHeight

\* C1 witness: a tick has clamped the bird onto the floor.
C1_ClampedAtFloor ==
    /\ lastEvent = "tick"
    /\ birdY = canvasHeight - birdHeight
    /\ velocity = 0

\* C2: exactly one of not-started, running and game-over holds; isRunning and
\* isGameOver are never both true.
C2_ExactlyOneRunState ==
    /\ ~(isRunning /\ isGameOver)
    /\ Cardinality({st \in {"idle", "running", "over"} :
            \/ st = "idle" /\ isRunning = FALSE /\ isGameOver = FALSE
            \/ st = "running" /\ isRunning = TRUE /\ isGameOver = FALSE
            \/ st = "over" /\ isRunning = FALSE /\ isGameOver = TRUE}) = 1

\* C2 witness: a run is in progress after an earlier run ended in game over.
C2_RunningAfterGameOver == isRunning /\ finalScore >= 0 /\ frameCount > 0

\* The pipes of a sequence whose passed flag is set.
PassedIn(ps) == Cardinality({i \in 1..Len(ps) : ps[i].passed})

\* C3: score is 0 right after startGame; it always equals the number of pipes
\* of the run (in the sequence or pruned) whose passed flag is set; only a
\* tick of a running game changes it otherwise, and never lowers it.
C3_ScoreAccounting ==
    /\ [](score = PassedIn(pipes) + PassedIn(removed))
    /\ [][StartStep => score' = 0]_vars
    /\ [][(score' # score /\ ~StartStep) => (RunningTick /\ score' > score)]_vars

\* C3 witness: the score counts a pipe that has already been pruned.
C3_ScoredPipePruned ==
    /\ score = 1
    /\ Len(removed) = 1
    /\ removed[1].passed
    /\ PassedIn(pipes) = 0

\* C4: isPassed returns true exactly when passed is false and birdX > x +
\* width, sets passed on that call, never resets it, and so returns true at
\* most once for a pipe however its calls interleave with update.
C4_IsPassedOneShot ==
    /\ [](hTrue <= 1)
    /\ [][hp.passed => hp'.passed]_vars
    /\ [][lastEvent' = "isPassed" =>
            /\ hRet' = (~hp.passed /\ hArg' > hp.x + hp.width)
            /\ hp'.passed = (hp.passed \/ hRet')
            /\ hp'.x = hp.x]_vars
    /\ [][lastEvent' = "pipeUpdate" => hp'.passed = hp.passed]_vars

\* C4 witness: the pipe at x = 0 answered true to isPassed(100) and then
\* false to isPassed(150).
C4_TrueThenFalse ==
    /\ hp.x = 0
    /\ hSteps = 0
    /\ hCalls >= 2
    /\ hTrue = 1
    /\ hArg = Px(150)
    /\ hRet = FALSE

\* The boxes [x, x + w) x [y, y + h) of the bird at height y and of a segment
\* overlap.
Overlaps(y, sx, sy, sw, sh) ==
    /\ birdX < sx + sw /\ sx < birdX + birdWidth
    /\ y < sy + sh /\ sy < y + birdHeight

\* The collision a tick tests: floor, ceiling, or a segment of a pipe.
Collides(y, ps) ==
    \/ y + birdHeight >= canvasHeight
    \/ y <= 0
    \/ \E i \in 1..Len(ps) :
          \/ Overlaps(y, ps[i].x, 0, ps[i].width, ps[i].topHeight)
          \/ Overlaps(y, ps[i].x, ps[i].topHeight + ps[i].gap, ps[i].width,
                      canvasHeight - (ps[i].topHeight + ps[i].gap))

\* C5: a tick of a running game ends in game over exactly when the bird, as
\* the tick left it, is at the floor or the ceiling or overlaps a segment of
\* a pipe the tick left in the sequence; nothing else enters game over.
C5_GameOverTrigger ==
    /\ [][RunningTick => (isGameOver' <=> Collides(birdY', pipes'))]_vars
    /\ [][(isGameOver' /\ ~isGameOver) => RunningTick]_vars

\* C5 witness: a run ended on a pipe, away from floor and ceiling.
C5_EndedOnPipe ==
    /\ isGameOver
    /\ lastEvent = "tick"
    /\ birdY > 0
    /\ birdY + birdHeight < canvasHeight

\* C6: a tick in Idle or GameOver changes nothing of the simulation.
C6_IdleTickNoOp ==
    [][(lastEvent' = "idleTick") =>
          /\ ~(isRunning /\ ~isGameOver)
          /\ UNCHANGED <<birdY, velocity, pipes, score, frameCount,
                         isRunning, isGameOver>>]_vars

\* C6 witness: a tick arrived after game over, with the final score kept.
C6_TickAfterGameOver ==
    /\ lastEvent = "idleTick"
    /\ isGameOver
    /\ score = 1
    /\ finalScore = 1

\* A step of a flap trigger that does not act as a start trigger.
FlapTrigger ==
    \/ lastEvent' = "click"
    \/ lastEvent' = "space" /\ isRunning /\ ~isGameOver

\* C7: a flap trigger changes nothing but bird.velocity, and changes that
\* only while the game is running.
C7_FlapOnlyWhileRunning ==
    [][FlapTrigger =>
          /\ UNCHANGED <<birdY, pipes, score, frameCount, isRunning, isGameOver>>
          /\ ~(isRunning /\ ~isGameOver) => velocity' = velocity]_vars

\* C7 witness: a click arrived after game over and left the velocity alone.
C7_ClickAfterGameOver ==
    /\ lastEvent = "click"
    /\ isGameOver
    /\ velocity # jumpStrength

\* A step of a start or restart trigger that is taken as one.
StartTrigger ==
    \/ lastEvent' \in {"startButton", "restartButton"}
    \/ lastEvent' \in {"space", "enter"} /\ ~(isRunning /\ ~isGameOver)

\* C8: startGame leaves the bird centred and at rest, exactly one unpassed
\* pipe at x = canvasWidth, score 0, frameCount 0 and the game running,
\* whatever the previous run left behind.
C8_StartGamePostcondition ==
    [][StartTrigger =>
          /\ birdY' = canvasHeight \div 2
          /\ velocity' = 0
          /\ Len(pipes') = 1
          /\ pipes'[1].x = canvasWidth
          /\ pipes'[1].passed = FALSE
          /\ score' = 0
          /\ frameCount' = 0
          /\ isRunning' = TRUE
          /\ isGameOver' = FALSE]_vars

\* C8 witness: a restart from a game over that had a score, two pipes and a
\* bird off centre.
C8_RestartedOverLeftovers ==
    /\ lastEvent = "restartButton"
    /\ finalScore = 1
    /\ score = 0
    /\ Len(pipes) = 1
    /\ frameCount = 0

\* C9: after n ticks of a run exactly 1 + n \div pipeGap pipes have been
\* spawned; there is one pipe until tick 300, and the pipe spawned on a
\* multiple of pipeGap is appended at x = canvasWidth.
C9_SpawnCadence ==
    (isRunning \/ isGameOver) =>
        /\ Len(pipes) + Len(removed) = 1 + frameCount \div 300
        /\ frameCount < 300 => Len(pipes) + Len(removed) = 1
        /\ (frameCount > 0 /\ frameCount % 300 = 0) =>
              pipes[Len(pipes)].x = canvasWidth

\* C9 witness: tick 300 has appended the second pipe.
C9_SecondPipeAtTick300 ==
    /\ frameCount = 300
    /\ Len(pipes) = 2
    /\ lastEvent = "tick"

\* How many pipes of ps are off screen once advanced by their speed.
GoneAfterAdvance(ps) ==
    Cardinality({i \in 1..Len(ps) : ps[i].x - ps[i].speed + ps[i].width < 0})

\* C10: a tick prunes exactly the pipes with x + width < 0 after their
\* advance, so no pipe of the sequence is off screen and every pruned pipe
\* is; frameCount grows by one in every running tick and the spawn follows
\* frameCount alone, pruning or not.
C10_Pruning ==
    /\ [](\A i \in 1..Len(pipes) : pipes[i].x + pipes[i].width >= 0)
    /\ [](\A i \in 1..Len(removed) : removed[i].x + removed[i].width < 0)
    /\ [][RunningTick =>
            /\ Len(removed') = Len(removed) + GoneAfterAdvance(pipes)
            /\ frameCount' = frameCount + 1
            /\ Len(pipes') = Len(pipes) - GoneAfterAdvance(pipes)
                             + (IF frameCount' % 300 = 0 THEN 1 ELSE 0)]_vars

\* C10 witness: a running game has pruned its first pipe.
C10_FirstPipePruned ==
    /\ isRunning
    /\ Len(removed) = 1
    /\ lastEvent = "tick"

\* A step in which a flap trigger reaches Bird.flap.
FlapTaken == isRunning /\ ~isGameOver /\ lastEvent' \in {"click", "space"}

\* C11: flap sets the velocity to jumpStrength whatever it was, leaves y
\* and the rest of the game alone (bird.x is never assigned), and a flap
\* after a flap changes nothing.
C11_FlapSetsVelocity ==
    [][FlapTaken =>
          /\ velocity' = jumpStrength
          /\ UNCHANGED <<birdY, pipes, score, frameCount, isRunning, isGameOver>>
          /\ velocity = jumpStrength => UNCHANGED game]_vars

\* C11 witness: a flap taken thirty ticks into a run, over a velocity that
\* was neither zero nor jumpStrength.
C11_FlapOverOtherVelocity ==
    /\ lastEvent = "click"
    /\ isRunning
    /\ frameCount = 30
    /\ velocity = jumpStrength

\* Two rectangles that share only an edge, as the claim names it.
SharesEdge(a, b) == a.x + a.width = b.x \/ a.y + a.height = b.y

\* C12: rectsIntersect gives the same answer in both argument orders, is
\* false for rectangles that share only an edge, and leaves its arguments.
C12_RectsIntersectSymmetric ==
    /\ [](lastEvent = "rectsIntersect" =>
            /\ rAB = rBA
            /\ SharesEdge(rA, rB) => ~rAB)
    /\ [][rA' = rA /\ rB' = rB]_vars

\* C12 witness: two unit squares side by side were tested and do not
\* intersect.
C12_SideBySide ==
    /\ lastEvent = "rectsIntersect"
    /\ rA = [x |-> 0, y |-> 0, width |-> 1, height |-> 1]
    /\ rB = [x |-> 1, y |-> 0, width |-> 1, height |-> 1]
    /\ ~rAB

\* C13 as claimed: a game over can be left for the not-started state.
C13_BackToIdle ==
    (isGameOver /\ ~isRunning) =>
        ENABLED (Next /\ ~isRunning' /\ ~isGameOver')

\* C13 as amended: from GameOver a start or restart trigger leads to
\* Running, and the not-started state is never entered again once a run has
\* started.
C13_GameOverLeavesOnlyToRunning ==
    /\ [][(isGameOver /\ ~isRunning /\ StartTrigger) =>
            (isRunning' /\ ~isGameOver')]_vars
    /\ [][(isRunning \/ isGameOver) => (isRunning' \/ isGameOver')]_vars

\* C13 witness: Enter has restarted the game from a game over.
C13_RestartedByEnter ==
    /\ lastEvent = "enter"
    /\ isRunning
    /\ frameCount = 0
    /\ finalScore >= 0

Geometry(p) ==
    /\ p.bottomY = p.topHeight + p.gap
    /\ p.bottomHeight = canvasHeight - p.bottomY
    /\ p.topHeight > 0
    /\ p.bottomY < canvasHeight
    /\ p.bottomHeight > 0

\* Two states of a pipe that differ at most in x and passed.
SameShape(p, q) ==
    /\ q.topHeight = p.topHeight
    /\ q.bottomY = p.bottomY
    /\ q.bottomHeight = p.bottomHeight
    /\ q.width = p.width
    /\ q.gap = p.gap
    /\ q.speed = p.speed

\* The gap that a pipe of top height t pixels leaves is inside the world.
GapFits(t) ==
    /\ Px(t) > 0
    /\ Px(t) + pipeVerticalGap < canvasHeight
    /\ canvasHeight - (Px(t) + pipeVerticalGap) > 0

\* C15: every pipe has bottomY = topHeight + gap and bottomHeight =
\* canvasHeight - bottomY with the gap inside the world, the gap fits for
\* every top height that can be drawn, and a tick changes nothing of a
\* surviving pipe but x and passed.
C15_PipeGeometry ==
    /\ [](\A i \in 1..Len(pipes) :
            Geometry(pipes[i]) /\ pipes[i].topHeight \div Px(1) \in TopHeightsPx)
    /\ [](\A t \in TopHeightsPx : GapFits(t))
    /\ [](\A i \in 1..Len(removed) : Geometry(removed[i]))
    /\ [][RunningTick =>
            LET d == Len(removed') - Len(removed)
            IN \A i \in (d + 1)..Len(pipes) : SameShape(pipes[i], pipes'[i - d])]_vars
    /\ [][(~RunningTick /\ ~StartStep) => pipes' = pipes]_vars

\* C15 witness: a pipe with the largest top height has moved and been passed.
C15_TallestPipePassed ==
    /\ Len(pipes) >= 1
    /\ pipes[1].passed
    /\ pipes[1].topHeight = Px(243)
    /\ pipes[1].bottomY = Px(493)

\* The bird's next position is inside the world without a clamp.
Unclamped ==
    /\ by + bv + gravity >= 0
    /\ by + bv + gravity + birdHeight <= canvasHeight

C17_CeilingNotSticky ==
    [][(lastEvent' = "birdUpdate" /\ by = 0 /\ bv = 0) =>
          (by' = gravity /\ bv' = gravity)]_vars

\* C17 witness: the bird that started at y = 0 at rest has been updated once.
C17_LeftTheCeiling ==
    /\ lastEvent = "birdUpdate"
    /\ bSteps = 1
    /\ by = gravity
    /\ bv = gravity

TickClamps ==
    \/ birdY + velocity + gravity + birdHeight > canvasHeight
    \/ birdY + velocity + gravity < 0

\* C19: a tick whose Bird.update clamps the bird ends in game over.
C19_ClampEndsRun ==
    [][(RunningTick /\ TickClamps) => (isGameOver' /\ ~isRunning')]_vars

\* C19 witness: a run ended with the bird clamped at the ceiling.
C19_ClampedAtCeiling ==
    /\ lastEvent = "tick"
    /\ isGameOver
    /\ birdY = 0
    /\ velocity = 0

\* C20: update adds gravity to the velocity, then the velocity to y; past
\* the floor it sets y = canvasHeight - height and velocity 0, past the
\* ceiling y = 0 and velocity 0; flap and reset leave y or set the centre.
C20_BirdUpdateStep ==
    /\ [][lastEvent' = "birdUpdate" =>
            LET v1 == bv + gravity
                y1 == by + v1
            IN IF y1 + birdHeight > canvasHeight
               THEN by' = canvasHeight - birdHeight /\ bv' = 0
               ELSE IF y1 < 0
                    THEN by' = 0 /\ bv' = 0
                    ELSE by' = y1 /\ bv' = v1]_vars
    /\ [][(lastEvent' = "birdUpdate" /\ bv = jumpStrength /\ Unclamped) =>
            by' = by + jumpStrength + gravity]_vars
    /\ [][lastEvent' = "birdFlap" => by' = by]_vars

\* C20 witness: the first update after a flap, unclamped.
C20_FirstUpdateAfterFlap ==
    /\ lastEvent = "birdUpdate"
    /\ bv = jumpStrength + gravity
    /\ by > 0
    /\ by < Px(350)

\* The pipes a tick prunes.
PrunedBy == Len(removed') - Len(removed)

\* C21: a running tick advances the bird and the pipes, prunes, counts the
\* frame and spawns, credits passes and only then tests for collisions: the
\* score handed over at game over is the score after the passes of that
\* tick, a pipe is credited in the tick whose advance takes it behind the
\* bird, and a pipe spawned by the cadence is still at canvasWidth when its
\* tick ends.
C21_TickOrder ==
    /\ [][(RunningTick /\ isGameOver') =>
            (finalScore' = score' /\ score' >= score)]_vars
    /\ [][RunningTick =>
            \A i \in (PrunedBy + 1)..Len(pipes) :
                /\ pipes'[i - PrunedBy].x = pipes[i].x - pipes[i].speed
                /\ pipes'[i - PrunedBy].passed =
                      (pipes[i].passed \/
                       pipes'[i - PrunedBy].x + pipes[i].width < birdX)]_vars
    /\ [][(RunningTick /\ frameCount' % pipeGap = 0) =>
            /\ Len(pipes') = Len(pipes) - PrunedBy + 1
            /\ pipes'[Len(pipes')].x = canvasWidth
            /\ ~pipes'[Len(pipes')].passed]_vars
    /\ [][RunningTick => (isGameOver' <=> Collides(birdY', pipes'))]_vars

\* C21 witness: a run ended after its second pipe was spawned; the score of
\* the pipe passed before was handed over, and the second pipe has moved once
\* for every tick after the one that spawned it.
C21_EndedAfterSpawn ==
    /\ lastEvent = "tick"
    /\ isGameOver
    /\ Len(pipes) = 2
    /\ pipes[1].passed
    /\ pipes[2].x = canvasWidth - (frameCount - pipeGap) * pipeSpeed
    /\ score = 1
    /\ finalScore = 1

\* C22: Game.gameOver is called at most once between one startGame and the
\* next: once the run is over nothing but a start changes the flags, the
\* overlay or the score handed over.
C22_GameOverOnce ==
    /\ [](gameOverCalls = IF isGameOver THEN 1 ELSE 0)
    /\ [][(isGameOver /\ isGameOver') =>
            UNCHANGED <<gameOverCalls, finalScore, gameOverDisplay, isRunning>>]_vars
    /\ [][gameOverCalls' > gameOverCalls => RunningTick]_vars

\* C22 witness: frames keep arriving after a run ended on the floor, where
\* the collision test still holds.
C22_FramesOnTheFloor ==
    /\ lastEvent = "idleTick"
    /\ isGameOver
    /\ gameOverCalls = 1
    /\ birdY + birdHeight >= canvasHeight

\* C23: x grows strictly along the pipe sequence; a tick keeps the
\* survivors in their order and appends a spawned pipe behind them.
C23_CreationOrder ==
    /\ [](\A i \in 1..Len(pipes) : \A j \in 1..Len(pipes) :
            i < j => pipes[i].x < pipes[j].x)
    /\ [][RunningTick =>
            /\ Len(pipes') \in {Len(pipes) - PrunedBy, Len(pipes) - PrunedBy + 1}
            /\ \A i \in (PrunedBy + 1)..Len(pipes) :
                  /\ pipes'[i - PrunedBy].x = pipes[i].x - pipes[i].speed
                  /\ pipes'[i - PrunedBy].topHeight = pipes[i].topHeight
            /\ Len(pipes') = Len(pipes) - PrunedBy + 1 =>
                  pipes'[Len(pipes')].x = canvasWidth]_vars

\* C23 witness: two pipes of different heights, the older one left of the
\* bird and the younger one on its way.
C23_OlderPipeFurtherLeft ==
    /\ lastEvent = "tick"
    /\ Len(pipes) = 2
    /\ pipes[1].x < 0
    /\ pipes[2].x < canvasWidth
    /\ pipes[1].topHeight # pipes[2].topHeight

\* C24: a Space keydown starts a game that is not running and leaves the
\* bird centred and at rest, or flaps in a running game and does nothing
\* else; an Enter keydown in a running game changes nothing.
C24_OneActionPerKey ==
    /\ [][lastEvent' = "space" =>
            IF isRunning /\ ~isGameOver
            THEN /\ velocity' = jumpStrength
                 /\ UNCHANGED <<birdY, pipes, score, frameCount, isRunning,
                                isGameOver, removed>>
            ELSE /\ isRunning' /\ ~isGameOver'
                 /\ velocity' = 0
                 /\ birdY' = canvasHeight \div 2
                 /\ frameCount' = 0]_vars
    /\ [][(isRunning /\ ~isGameOver /\ lastEvent' = "enter") =>
            UNCHANGED game]_vars

\* C24 witness: Space has restarted the game from a game over.
C24_RestartedBySpace ==
    /\ lastEvent = "space"
    /\ isRunning
    /\ finalScore >= 0
    /\ frameCount = 0
    /\ velocity = 0

\* A pipe with the shipped speed, gap and width.
Configured(p) ==
    /\ p.speed = pipeSpeed
    /\ p.gap = pipeVerticalGap
    /\ p.width = pipeWidth

C26_StrictlyInsideWhileRunning ==
    /\ []((isRunning /\ ~isGameOver) =>
            (0 < birdY /\ birdY < canvasHeight - birdHeight))
    /\ [][(RunningTick /\ (birdY' = 0 \/ birdY' = canvasHeight - birdHeight)) =>
            (isGameOver' /\ ~isRunning')]_vars

\* C26 witness: a tick has brought the bird exactly onto the floor without
\* a clamp, and the run has ended.
C26_LandedExactly ==
    /\ lastEvent = "tick"
    /\ isGameOver
    /\ birdY = canvasHeight - birdHeight
    /\ velocity # 0

\* C27: under a player who never flaps, and under one who flaps before
\* every frame, every run ends in game over.
C27_RunEnds == (isRunning /\ ~isGameOver) ~> (isGameOver /\ ~isRunning)

\* C27 witness: the run of the player who flaps before every frame has ended
\* at the ceiling.
C27_FranticAtCeiling ==
    /\ player = "frantic"
    /\ isGameOver
    /\ birdY = 0
    /\ lastEvent = "tick"

\* C28: exactly one gameLoop callback is pending at any time, whatever was
\* started or restarted, and a frame of a running game is one update.
C28_OneFrameLoop ==
    /\ [](pendingFrames = 1)
    /\ [][RunningTick => frameCount' = frameCount + 1]_vars
    /\ [][frameCount' > frameCount => RunningTick]_vars

\* C28 witness: a frame of a run that followed a restart.
C28_FrameAfterRestart ==
    /\ pendingFrames = 1
    /\ lastEvent = "tick"
    /\ finalScore >= 0
    /\ isRunning
    /\ frameCount = 1

\* C29: every pruned pipe had been passed, and counted, before it left.
C29_PrunedPipesScored ==
    /\ \A i \in 1..Len(removed) : removed[i].passed
    /\ Len(removed) <= score

\* C29 witness: two pipes have been pruned, both scored.
C29_TwoScoredAndPruned ==
    /\ Len(removed) = 2
    /\ removed[1].passed
    /\ removed[2].passed
    /\ score = 2

\* C30: after a start the sequence holds one or two pipes; it is empty only
\* before the first start.
C30_OneOrTwoPipes ==
    /\ (isRunning \/ isGameOver) => Len(pipes) \in 1..2
    /\ Len(pipes) = 0 => (~isRunning /\ ~isGameOver /\ finalScore = -1)

\* C30 witness: the third pipe of a run is alone after the second was pruned.
C30_AloneAfterSecondPrune ==
    /\ lastEvent = "tick"
    /\ Len(pipes) = 1
    /\ Len(removed) = 2

\* The pipes of the sequence that a tick's advance takes behind the bird.
CrossingBird ==
    {i \in 1..Len(pipes) :
        /\ pipes[i].x + pipes[i].width >= birdX
        /\ pipes[i].x - pipes[i].speed + pipes[i].width < birdX}

\* C31: a tick raises the score by at most 1, namely by the number of pipes
\* its advance takes behind the bird, which is never more than one; the
\* pipe a tick spawns is not credited in that tick.
C31_AtMostOnePassPerTick ==
    /\ [][RunningTick =>
            /\ score' - score \in {0, 1}
            /\ score' - score = Cardinality(CrossingBird)]_vars
    /\ [][(RunningTick /\ frameCount' % pipeGap = 0) =>
            /\ ~pipes'[Len(pipes')].passed
            /\ pipes'[Len(pipes')].x + pipes'[Len(pipes')].width >= birdX]_vars

\* C31 witness: the tick that took the second pipe of a run behind the bird
\* has raised the score from 1 to 2.
C31_SecondPassCredited ==
    /\ lastEvent = "tick"
    /\ score = 2
    /\ Len(pipes) = 1
    /\ pipes[1].passed
    /\ pipes[1].x + pipes[1].width + pipes[1].speed >= birdX

\* The frame in which the pipe at index i of the sequence was created: the
\* pipes of a run are created pipeGap frames apart, the first by startGame.
BornAt(i) == (Len(removed) + i - 1) * pipeGap

=============================================================================
